---- MODULE Spec2Model ----
(***************************************************************************)
(* The scan route handlers of llmguard (POST /api/scan): the proxy to the  *)
(* FastAPI backend, the response normalizer and the heuristic fallback.    *)
(*                                                                         *)
(* Conventions of the model                                                *)
(*   - a JavaScript string is a sequence of one-character strings;         *)
(*   - a JSON object is a function whose domain is the set of keys that    *)
(*     are present: a key whose value is undefined is not in the domain    *)
(*     (JSON.stringify drops it);                                          *)
(*   - an expression that may be undefined is a sequence of length 0       *)
(*     (undefined) or 1 (the value);                                       *)
(*   - a risk score is kept in hundredths: 0.8 is 80, 0.95 is 95.          *)
(***************************************************************************)
EXTENDS Integers, Sequences, FiniteSets, TLC

(***************************************************************************)
(* Characters and strings                                                  *)
(***************************************************************************)
LowerSeq == <<"a","b","c","d","e","f","g","h","i","j","k","l","m","n","o","p","q","r","s","t","u","v","w","x","y","z">>
UpperSeq == <<"A","B","C","D","E","F","G","H","I","J","K","L","M","N","O","P","Q","R","S","T","U","V","W","X","Y","Z">>
DigitSeq == <<"0","1","2","3","4","5","6","7","8","9">>

Range(f) == {f[k] : k \in DOMAIN f}

LowerChars == Range(LowerSeq)
UpperChars == Range(UpperSeq)
DigitChars == Range(DigitSeq)
AlphaChars == LowerChars \cup UpperChars
\* \w of a JavaScript regular expression
WordChars == AlphaChars \cup DigitChars \cup {"_"}
\* \s, restricted to the white space the prompts of the model use
SpaceChars == {" "}

\* String.prototype.toLowerCase, one character
ToLowerChar(c) ==
    IF c \in UpperChars
    THEN LowerSeq[CHOOSE k \in DOMAIN UpperSeq : UpperSeq[k] = c]
    ELSE c

toLowerCase(s) == [k \in DOMAIN s |-> ToLowerChar(s[k])]

\* String.prototype.includes
includes(s, w) ==
    \E i \in 0..(Len(s) - Len(w)) : SubSeq(s, i + 1, i + Len(w)) = w

(***************************************************************************)
(* Regular expressions, with the backtracking order of JavaScript.         *)
(* Ends(r, s, i) is the sequence of the positions at which a match of r    *)
(* that starts at position i of s can end, in the order in which the       *)
(* backtracking matcher tries them (greedy quantifiers first take as much  *)
(* as they can): its head is the match the engine reports.                 *)
(***************************************************************************)
Cls(S) == [t |-> "cls", s |-> S]
Chr(c) == Cls({c})
WordB == [t |-> "wb"]
Cat(xs) == [t |-> "cat", xs |-> xs]
Alt(xs) == [t |-> "alt", xs |-> xs]
\* x{min,max}; max = -1 is no upper limit
Rep(x, min, max) == [t |-> "rep", x |-> x, min |-> min, max |-> max]
Opt(x) == Rep(x, 0, 1)
Plus(x) == Rep(x, 1, -1)
Lit(w) == Cat([k \in DOMAIN w |-> Chr(w[k])])

IsWordAt(s, i) == i >= 1 /\ i <= Len(s) /\ s[i] \in WordChars

\* \b between s[i-1] and s[i]
WordBoundary(s, i) == IsWordAt(s, i - 1) # IsWordAt(s, i)

RECURSIVE Ends(_, _, _), EndsFrom(_, _, _), EndsCat(_, _, _, _),
          EndsAlt(_, _, _, _), EndsRep(_, _, _, _, _), EndsRepFrom(_, _, _, _, _, _)

Ends(r, s, i) ==
    CASE r.t = "cls" -> IF i <= Len(s) /\ s[i] \in r.s THEN <<i + 1>> ELSE <<>>
      [] r.t = "wb"  -> IF WordBoundary(s, i) THEN <<i>> ELSE <<>>
      [] r.t = "cat" -> EndsCat(r.xs, 1, s, <<i>>)
      [] r.t = "alt" -> EndsAlt(r.xs, 1, s, i)
      [] r.t = "rep" -> EndsRep(r.x, r.min, r.max, s, i)

\* The ends of r from each position of ps, in the order of ps.  A single
\* character or a word boundary keeps or drops each position: a filter.
EndsFrom(r, s, ps) ==
    IF r.t = "cls"
    THEN LET ok(p) == p <= Len(s) /\ s[p] \in r.s
             kept == SelectSeq(ps, ok)
         IN  [k \in DOMAIN kept |-> kept[k] + 1]
    ELSE IF r.t = "wb"
    THEN LET ok(p) == WordBoundary(s, p)
         IN  SelectSeq(ps, ok)
    ELSE IF ps = <<>> THEN <<>>
    ELSE Ends(r, s, Head(ps)) \o EndsFrom(r, s, Tail(ps))

EndsCat(xs, k, s, ps) ==
    IF k > Len(xs) THEN ps
    ELSE EndsCat(xs, k + 1, s, EndsFrom(xs[k], s, ps))

EndsAlt(xs, k, s, i) ==
    IF k > Len(xs) THEN <<>>
    ELSE Ends(xs[k], s, i) \o EndsAlt(xs, k + 1, s, i)

EndsRepFrom(x, min, max, s, i, ps) ==
    IF ps = <<>> THEN <<>>
    ELSE (IF Head(ps) > i THEN EndsRep(x, min, max, s, Head(ps)) ELSE <<>>)
         \o EndsRepFrom(x, min, max, s, i, Tail(ps))

\* The number of characters of S that s has from position i on
RunLength(S, s, i) ==
    CHOOSE n \in 0..(Len(s) + 1 - i) :
        /\ \A k \in 0..(n - 1) : s[i + k] \in S
        /\ (i + n <= Len(s) => s[i + n] \notin S)

\* A repeated character class takes the longest run first and gives back one
\* character at a time: the same order as the general case, without recursion.
EndsRepCls(S, min, max, s, i) ==
    LET run == RunLength(S, s, i)
        m == IF max >= 0 /\ max < run THEN max ELSE run
    IN  IF m < min THEN <<>>
        ELSE [k \in 1..(m - min + 1) |-> i + m - k + 1]

EndsRep(x, min, max, s, i) ==
    IF x.t = "cls" THEN EndsRepCls(x.s, min, max, s, i)
    ELSE
    LET more == IF max = 0 THEN <<>>
                ELSE EndsRepFrom(x, IF min > 0 THEN min - 1 ELSE 0,
                                 IF max < 0 THEN max ELSE max - 1,
                                 s, i, Ends(x, s, i))
    IN  more \o (IF min = 0 THEN <<i>> ELSE <<>>)

\* The match of r at position i of s is the head of Ends(r, s, i)
MatchesAt(r, s, i) == Ends(r, s, i) # <<>>
MatchEnd(r, s, i) == Head(Ends(r, s, i))

\* RegExp.prototype.test on a fresh regular expression (lastIndex = 0)
test(r, s) == \E i \in 1..(Len(s) + 1) : MatchesAt(r, s, i)

\* String.prototype.replace with a global regular expression: the leftmost
\* matches, not overlapping, each replaced by ph.  None of the handler's
\* regular expressions matches the empty string.
RECURSIVE ReplaceFrom(_, _, _, _)
ReplaceFrom(r, s, ph, i) ==
    LET starts == {j \in i..Len(s) : MatchesAt(r, s, j)}
    IN  IF starts = {} THEN SubSeq(s, i, Len(s))
        ELSE LET j == CHOOSE j \in starts : \A k \in starts : j <= k
             IN  SubSeq(s, i, j - 1) \o ph \o ReplaceFrom(r, s, ph, MatchEnd(r, s, j))

replace(s, r, ph) == ReplaceFrom(r, s, ph, 1)

(***************************************************************************)
(* The regular expressions and vocabularies of the fallback                *)
(***************************************************************************)
Sep == Opt(Cls(SpaceChars \cup {".", "-"}))
Digit == Cls(DigitChars)

\* /[a-zA-Z0-9._%+-]+@[a-zA-Z0-9.-]+\.[a-zA-Z]{2,}/g
emailRegex ==
    Cat(<<Plus(Cls(AlphaChars \cup DigitChars \cup {".", "_", "%", "+", "-"})),
          Chr("@"),
          Plus(Cls(AlphaChars \cup DigitChars \cup {".", "-"})),
          Chr("."),
          Rep(Cls(AlphaChars), 2, -1)>>)

\* /(\+\d{1,3})?[\s.-]?\(?\d{3}\)?[\s.-]?\d{3}[\s.-]?\d{4}/g
phoneRegex ==
    Cat(<<Opt(Cat(<<Chr("+"), Rep(Digit, 1, 3)>>)),
          Sep,
          Opt(Chr("(")), Rep(Digit, 3, 3), Opt(Chr(")")),
          Sep,
          Rep(Digit, 3, 3),
          Sep,
          Rep(Digit, 4, 4)>>)

\* /\b(?:\d{4}[\s-]?){3}\d{4}\b/g
creditCardRegex ==
    Cat(<<WordB,
          Rep(Cat(<<Rep(Digit, 4, 4), Opt(Cls(SpaceChars \cup {"-"}))>>), 3, 3),
          Rep(Digit, 4, 4),
          WordB>>)

\* /\b\d{3}[-]?\d{2}[-]?\d{4}\b/g
ssnRegex ==
    Cat(<<WordB, Rep(Digit, 3, 3), Opt(Chr("-")), Rep(Digit, 2, 2),
          Opt(Chr("-")), Rep(Digit, 4, 4), WordB>>)

\* /\b(?:Mr\.|Mrs\.|Ms\.|Dr\.)?\s?[A-Z][a-z]+ (?:[A-Z][a-z]+\s?)+/g
nameRegex ==
    Cat(<<WordB,
          Opt(Alt(<<Lit(<<"M","r",".">>), Lit(<<"M","r","s",".">>),
                    Lit(<<"M","s",".">>), Lit(<<"D","r",".">>)>>)),
          Opt(Cls(SpaceChars)),
          Cls(UpperChars), Plus(Cls(LowerChars)),
          Chr(" "),
          Plus(Cat(<<Cls(UpperChars), Plus(Cls(LowerChars)), Opt(Cls(SpaceChars))>>))>>)

REDACTED_EMAIL == <<"[","R","E","D","A","C","T","E","D","_","E","M","A","I","L","]">>
REDACTED_PHONE == <<"[","R","E","D","A","C","T","E","D","_","P","H","O","N","E","]">>
REDACTED_CC == <<"[","R","E","D","A","C","T","E","D","_","C","C","]">>
REDACTED_SSN == <<"[","R","E","D","A","C","T","E","D","_","S","S","N","]">>
REDACTED_PERSON == <<"[","R","E","D","A","C","T","E","D","_","P","E","R","S","O","N","]">>

toxicWords ==
    << <<"s","h","i","t">>, <<"f","u","c","k">>, <<"d","a","m","n">>,
       <<"a","s","s">>, <<"i","d","i","o","t">>, <<"s","t","u","p","i","d">> >>

potentialSecrets ==
    << <<"a","p","i","_","k","e","y">>, <<"p","a","s","s","w","o","r","d">>,
       <<"s","e","c","r","e","t">>, <<"t","o","k","e","n">>,
       <<"a","p","i","k","e","y">>, <<"a","p","i"," ","k","e","y">>,
       <<"a","c","c","e","s","s"," ","k","e","y">>,
       <<"p","r","i","v","a","t","e"," ","k","e","y">> >>

\* a filter that compares without folding the case of the prompt
wordsInCaseSensitive(words, s) == SelectSeq(words, LAMBDA w : includes(s, w))

\* Array.prototype.filter(word => prompt.toLowerCase().includes(word))
RECURSIVE wordsIn(_, _)
wordsIn(words, s) ==
    IF words = <<>> THEN <<>>
    ELSE (IF includes(toLowerCase(s), Head(words)) THEN <<Head(words)>> ELSE <<>>)
         \o wordsIn(Tail(words), s)

(***************************************************************************)
(* JSON values and the JavaScript operators the handlers apply to them     *)
(***************************************************************************)
\* {} ; also the value of an expression that is undefined
EmptyObj == <<>>
Undefined == <<>>

Has(o, k) == k \in DOMAIN o

\* o.k : <<the value>>, or Undefined
Get(o, k) == IF Has(o, k) THEN <<o[k]>> ELSE Undefined

\* { k: v } as JSON.stringify writes it: a key whose value is undefined is dropped
Field(k, v) == IF v = Undefined THEN EmptyObj ELSE k :> v[1]

\* a || b on strings that may be undefined: the empty string is falsy
OrStr(a, b) == IF a # Undefined /\ a[1] # <<>> THEN a ELSE b

\* v || 0 on a number that may be undefined
OrZero(v) == IF v # Undefined /\ v[1] # 0 THEN v[1] ELSE 0

\* v !== false
NotFalse(v) == ~(v # Undefined /\ v[1] = FALSE)

\* v || false on a boolean that may be undefined
OrFalse(v) == v # Undefined /\ v[1]

\* v || {} on an object that may be undefined
OrEmptyObj(v) == IF v # Undefined THEN v[1] ELSE EmptyObj

\* Array.prototype.every(result => result.is_valid)
everyValid(results) == \A k \in DOMAIN results : results[k].is_valid

(***************************************************************************)
(* The response normalizer of the comprehensive handler                    *)
(***************************************************************************)
KnownScanners == {"anonymize", "secrets", "toxicity", "bansubstrings", "regex", "code"}

\* scannerFieldMap[scannerName], Undefined for a name that is no key of it
scannerFieldMap(scannerName) ==
    CASE scannerName = "anonymize"     -> <<"anonymize_result">>
      [] scannerName = "toxicity"      -> <<"toxicity_result">>
      [] scannerName = "secrets"       -> <<"secrets_result">>
      [] scannerName = "bansubstrings" -> <<"banned_substrings_result">>
      [] scannerName = "regex"         -> <<"regex_result">>
      [] scannerName = "code"          -> <<"code_result">>
      [] OTHER                         -> Undefined

\* apiData.detection?.k
Detection(apiData, k) ==
    IF Has(apiData, "detection") THEN Get(apiData.detection, k) ELSE Undefined

\* the scannerResult built before the detection overrides
NormalizerBase(scannerName, apiData, body) ==
    LET resultField == scannerFieldMap(scannerName)
        result == IF resultField # Undefined THEN Get(apiData, resultField[1])
                  ELSE Undefined
    IN  IF result # Undefined
        THEN [scanner_name |-> scannerName,
              is_valid |-> NotFalse(Get(result[1], "is_valid")),
              risk_score |-> OrZero(Get(result[1], "risk_score")),
              details |-> OrEmptyObj(Get(result[1], "details"))]
             @@ Field("input_prompt", Get(body, "prompt"))
             @@ Field("sanitized_prompt",
                      OrStr(Get(result[1], "sanitized_prompt"),
                            OrStr(Get(apiData, "sanitized_prompt"), Get(body, "prompt"))))
        ELSE [scanner_name |-> scannerName,
              is_valid |-> IF scannerName = "anonymize"
                           THEN NotFalse(Get(apiData, "is_valid")) ELSE TRUE,
              risk_score |-> IF scannerName = "anonymize"
                             THEN OrZero(Get(apiData, "risk_score")) ELSE 0,
              details |-> EmptyObj]
             @@ Field("input_prompt", Get(body, "prompt"))
             @@ Field("sanitized_prompt",
                      OrStr(Get(apiData, "sanitized_prompt"), Get(body, "prompt")))

\* a JSON value in a place where the code calls an array method: an array with
\* its items, or an object with its fields
JsonArray(items) == [type |-> "array", items |-> items]
JsonObject(fields) == [type |-> "object", fields |-> fields]

\* whether v has Array.prototype.some
IsArray(v) == v.type = "array"

\* a test that takes a score of 0.7 for toxic
someToxicFromThreshold(items) == \E k \in DOMAIN items : items[k].score >= 70

\* toxicity.some(item => item.score > 0.7)
someToxic(items) == \E k \in DOMAIN items : items[k].score > 70

\* one turn of the loop over requestedScanners
NormalizerResult(scannerName, apiData, body) ==
    LET scannerResult == NormalizerBase(scannerName, apiData, body)
        pii == Detection(apiData, "pii")
        toxicity == Detection(apiData, "toxicity")
        banned == Detection(apiData, "banned_substrings")
    IN  IF scannerName = "anonymize" /\ pii # Undefined
        THEN [scannerResult EXCEPT
                !.details = ("pii_detected" :> TRUE) @@ ("entities" :> pii[1]) @@ @]
        ELSE IF scannerName = "toxicity" /\ toxicity # Undefined
        THEN [scannerResult EXCEPT
                !.details = ("toxicity_scores" :> toxicity[1]) @@ @,
                !.is_valid = ~someToxic(toxicity[1].items)]
        ELSE IF scannerName = "bansubstrings" /\ banned # Undefined
        THEN [scannerResult EXCEPT
                !.details = ("banned_matches" :> banned[1]) @@ @,
                !.is_valid = (Len(banned[1]) = 0)]
        ELSE scannerResult

\* body.scanners || ["anonymize"] : an empty array is truthy
requestedScanners(body) ==
    IF Has(body, "scanners") THEN body.scanners ELSE <<"anonymize">>

\* the loop throws a TypeError: apiData.detection.toxicity.some is not a
\* function, when toxicity is requested and the field is no array
NormalizerThrows(apiData, body) ==
    LET scanners == requestedScanners(body)
        toxicity == Detection(apiData, "toxicity")
    IN  \E k \in DOMAIN scanners :
            scanners[k] = "toxicity" /\ toxicity # Undefined /\ ~IsArray(toxicity[1])

NormalizedResults(apiData, body) ==
    LET scanners == requestedScanners(body)
    IN  [k \in DOMAIN scanners |-> NormalizerResult(scanners[k], apiData, body)]

\* the ScanResponse built from a payload that is not of the unified shape
NormalizedResponse(apiData, body) ==
    LET scannerResults == NormalizedResults(apiData, body)
    IN  [overall_is_valid |-> everyValid(scannerResults),
         applied_scanners_results |-> scannerResults]
        @@ Field("original_prompt", Get(body, "prompt"))
        @@ Field("final_sanitized_prompt",
                 OrStr(Get(apiData, "sanitized_prompt"), Get(body, "prompt")))

\* apiData.applied_scanners_results && Array.isArray(apiData.applied_scanners_results)
IsUnifiedShape(apiData) == Has(apiData, "applied_scanners_results")

(***************************************************************************)
(* The heuristic fallback of the comprehensive handler                     *)
(***************************************************************************)
\* the checks and the sanitization the fallback makes on a prompt (a string)
FallbackChecks(prompt) ==
    LET hasEmail == test(emailRegex, prompt)
        hasPhone == test(phoneRegex, prompt)
        hasCreditCard == test(creditCardRegex, prompt)
        hasSSN == test(ssnRegex, prompt)
        hasName == test(nameRegex, prompt)
        hasPII == hasEmail \/ hasPhone \/ hasCreditCard \/ hasSSN \/ hasName
        toxicFound == wordsIn(toxicWords, prompt)
        secretsFound == wordsIn(potentialSecrets, prompt)
    IN  [hasPII |-> hasPII,
         found |-> [email |-> hasEmail, phone |-> hasPhone,
                    creditCard |-> hasCreditCard, ssn |-> hasSSN, name |-> hasName],
         sanitizedPrompt |->
             IF hasPII
             THEN replace(replace(replace(replace(replace(prompt,
                      emailRegex, REDACTED_EMAIL),
                      phoneRegex, REDACTED_PHONE),
                      creditCardRegex, REDACTED_CC),
                      ssnRegex, REDACTED_SSN),
                      nameRegex, REDACTED_PERSON)
             ELSE prompt,
         hasToxicity |-> toxicFound # <<>>,
         words_found |-> toxicFound,
         hasSecrets |-> secretsFound # <<>>,
         potential_matches |-> secretsFound]

\* what one turn of the forEach over the requested scanners pushes: a sequence
\* of one result, or none for a name that no branch handles
FallbackPush(scannerName, prompt, c) ==
    IF scannerName = "anonymize"
    THEN << [scanner_name |-> scannerName, input_prompt |-> prompt,
             sanitized_prompt |-> c.sanitizedPrompt,
             is_valid |-> ~c.hasPII,
             risk_score |-> IF c.hasPII THEN 80 ELSE 0,
             details |-> IF c.hasPII
                         THEN [pii_detected |-> TRUE, found |-> c.found]
                         ELSE EmptyObj] >>
    ELSE IF scannerName = "toxicity"
    THEN << [scanner_name |-> scannerName, input_prompt |-> prompt,
             sanitized_prompt |-> prompt,
             is_valid |-> ~c.hasToxicity,
             risk_score |-> IF c.hasToxicity THEN 90 ELSE 0,
             details |-> IF c.hasToxicity
                         THEN [toxicity_detected |-> TRUE, words_found |-> c.words_found]
                         ELSE EmptyObj] >>
    ELSE IF scannerName = "secrets"
    THEN << [scanner_name |-> scannerName, input_prompt |-> prompt,
             sanitized_prompt |-> prompt,
             is_valid |-> ~c.hasSecrets,
             risk_score |-> IF c.hasSecrets THEN 95 ELSE 0,
             details |-> IF c.hasSecrets
                         THEN [secrets_detected |-> TRUE,
                               potential_matches |-> c.potential_matches]
                         ELSE EmptyObj] >>
    ELSE IF scannerName = "bansubstrings"
    THEN << [scanner_name |-> scannerName, input_prompt |-> prompt,
             sanitized_prompt |-> prompt, is_valid |-> TRUE, risk_score |-> 0,
             details |-> [substrings_detected |-> FALSE]] >>
    ELSE IF scannerName = "regex"
    THEN << [scanner_name |-> scannerName, input_prompt |-> prompt,
             sanitized_prompt |-> prompt, is_valid |-> TRUE, risk_score |-> 0,
             details |-> [regex_matches_detected |-> FALSE]] >>
    ELSE IF scannerName = "code"
    THEN << [scanner_name |-> scannerName, input_prompt |-> prompt,
             sanitized_prompt |-> prompt, is_valid |-> TRUE, risk_score |-> 0,
             details |-> [code_detected |-> FALSE]] >>
    ELSE <<>>

RECURSIVE FallbackResults(_, _, _)
FallbackResults(scanners, prompt, c) ==
    IF scanners = <<>> THEN <<>>
    ELSE FallbackPush(Head(scanners), prompt, c)
         \o FallbackResults(Tail(scanners), prompt, c)

\* fallbackResponse, for a body whose prompt is a string
FallbackResponse(body, c) ==
    LET scannerResults == FallbackResults(requestedScanners(body), body.prompt, c)
    IN  [original_prompt |-> body.prompt,
         final_sanitized_prompt |-> c.sanitizedPrompt,
         overall_is_valid |-> everyValid(scannerResults),
         applied_scanners_results |-> scannerResults]

(***************************************************************************)
(* The single-result handler (remote call with a fallback that reports one *)
(* anonymize result) and the proxy handler (remote call only)              *)
(***************************************************************************)
\* the ScanResponse both build from the payload of a successful remote call
SingleResponse(apiData, body) ==
    LET sanitized == OrStr(Get(apiData, "sanitized_prompt"), Get(body, "prompt"))
    IN  [overall_is_valid |-> OrFalse(Get(apiData, "is_valid")),
         applied_scanners_results |->
             << [scanner_name |-> "anonymize",
                 is_valid |-> OrFalse(Get(apiData, "is_valid")),
                 risk_score |-> OrZero(Get(apiData, "risk_score")),
                 details |-> OrEmptyObj(Get(apiData, "details"))]
                @@ Field("input_prompt", Get(body, "prompt"))
                @@ Field("sanitized_prompt", sanitized) >>]
        @@ Field("original_prompt", Get(body, "prompt"))
        @@ Field("final_sanitized_prompt", sanitized)

singleSecrets == SubSeq(potentialSecrets, 1, 5)

Max(a, b) == IF a >= b THEN a ELSE b

\* the fallback of the single-result handler, for a prompt that is a string
SingleFallbackResponse(prompt) ==
    LET hasPII == test(emailRegex, prompt) \/ test(phoneRegex, prompt)
                  \/ test(creditCardRegex, prompt)
        hasToxicity == wordsIn(toxicWords, prompt) # <<>>
        hasSecrets == wordsIn(singleSecrets, prompt) # <<>>
        sanitizedPrompt ==
            IF hasPII
            THEN replace(replace(replace(prompt, emailRegex, REDACTED_EMAIL),
                                 phoneRegex, REDACTED_PHONE),
                         creditCardRegex, REDACTED_CC)
            ELSE prompt
        isValid == ~hasToxicity /\ ~hasSecrets
        risk1 == IF hasPII THEN Max(10, 80) ELSE 10
        risk2 == IF hasToxicity THEN Max(risk1, 90) ELSE risk1
        riskScore == IF hasSecrets THEN Max(risk2, 95) ELSE risk2
        details == (IF hasToxicity
                    THEN "toxicity" :> [score |-> 90, detected |-> TRUE] ELSE EmptyObj)
                   @@ (IF hasSecrets
                       THEN "secrets" :> [score |-> 95, detected |-> TRUE] ELSE EmptyObj)
    IN  [original_prompt |-> prompt,
         final_sanitized_prompt |-> sanitizedPrompt,
         overall_is_valid |-> isValid,
         applied_scanners_results |->
             << [scanner_name |-> "anonymize", input_prompt |-> prompt,
                 sanitized_prompt |-> sanitizedPrompt, is_valid |-> isValid,
                 risk_score |-> riskScore, details |-> details] >>]

(***************************************************************************)
(* Inputs: the requests and what the backend answers                       *)
(***************************************************************************)
\* the longest scanners list of a request
MaxScanners == 2

PromptEmail == <<"E","m","a","i","l"," ","m","e"," ","a","t"," ","j","a","n","e","@","e","x","a","m","p","l","e",".","c","o","m">>
PromptFine == <<"T","h","i","s"," ","p","l","a","n"," ","i","s"," ","f","i","n","e",".">>
PromptPassword == <<"m","y"," ","P","a","s","s","w","o","r","d">>
PromptName == <<"D","r","."," ","J","o","h","n"," ","S","m","i","t","h">>

\* sixteen digits in a row: a card number, whose first ten read as a phone number
PromptCard == <<"4","1","1","1","1","1","1","1","1","1","1","1","1","1","1","1">>
\* a name with a social security number right behind it
PromptNameSsn == <<"A","l"," ","B","o","1","2","3","-","4","5","-","6","7","8","9">>

Prompts ==
    {PromptEmail, PromptFine, PromptPassword, PromptName, PromptCard, PromptNameSsn}

\* the six scanner kinds and a name that is none of them
ScannerNames == KnownScanners \cup {"sentiment"}

ScannerLists == UNION {[1..n -> ScannerNames] : n \in 0..MaxScanners}

\* the bodies request.json() can return: prompt and scanners present or not
Bodies ==
    {Field("prompt", p) @@ Field("scanners", sc) :
        p \in {Undefined} \cup {<<q>> : q \in Prompts},
        sc \in {Undefined} \cup {<<l>> : l \in ScannerLists}}

\* what the backend calls the sanitized text in its payloads
RemoteSanitized == <<"h","i"," ","[","R","E","D","A","C","T","E","D","]">>
RemoteOriginal == <<"h","i"," ","B","o","b">>

RemoteResult(valid, risk) ==
    [scanner_name |-> "anonymize", input_prompt |-> RemoteOriginal,
     sanitized_prompt |-> RemoteSanitized, is_valid |-> valid,
     risk_score |-> risk, details |-> EmptyObj]

\* unified shape, as the contract has it
PayloadUnified ==
    [original_prompt |-> RemoteOriginal, final_sanitized_prompt |-> RemoteSanitized,
     overall_is_valid |-> FALSE,
     applied_scanners_results |-> <<RemoteResult(FALSE, 80)>>]

\* unified shape whose verdict disagrees with its results
PayloadUnifiedInconsistent ==
    [original_prompt |-> RemoteOriginal, final_sanitized_prompt |-> RemoteSanitized,
     overall_is_valid |-> TRUE,
     applied_scanners_results |-> <<RemoteResult(TRUE, 0), RemoteResult(FALSE, 120)>>]

\* a payload that has the list and nothing else
PayloadUnifiedBare == [applied_scanners_results |-> <<>>]

\* legacy flat shape
PayloadLegacyFlat ==
    [sanitized_prompt |-> RemoteSanitized, is_valid |-> FALSE, risk_score |-> 80,
     detection |-> [pii |-> <<[entity_type |-> "PERSON", start |-> 3]>>]]

PayloadLegacyValid == [is_valid |-> TRUE, risk_score |-> 0]

PayloadEmpty == EmptyObj

\* legacy flat shape with a risk score above 1
PayloadLegacyHighRisk == [is_valid |-> TRUE, risk_score |-> 150]

\* multi-field shape: per-scanner sub-objects and detection lists
PayloadMulti ==
    [sanitized_prompt |-> RemoteSanitized,
     anonymize_result |-> [sanitized_prompt |-> RemoteSanitized, is_valid |-> FALSE,
                           risk_score |-> 80, details |-> [engine |-> "ner"]],
     toxicity_result |-> [is_valid |-> FALSE, risk_score |-> 90],
     secrets_result |-> [risk_score |-> -10],
     banned_substrings_result |-> [is_valid |-> FALSE, risk_score |-> 100],
     detection |-> [toxicity |-> JsonArray(<<[label |-> "insult", score |-> 70]>>),
                    banned_substrings |-> <<>>]]

PayloadDetections ==
    [is_valid |-> TRUE,
     detection |-> [toxicity |-> JsonArray(<<[label |-> "insult", score |-> 71]>>),
                    banned_substrings |-> <<"forbidden">>]]

\* the toxicity detection is one object where the handler expects a list
PayloadToxicityObject ==
    [is_valid |-> TRUE,
     detection |-> [toxicity |-> JsonObject([label |-> "insult", score |-> 90])]]

\* a toxicity detection whose only score is exactly 0.7
PayloadToxicityAtThreshold ==
    [detection |-> [toxicity |-> JsonArray(<<[label |-> "insult", score |-> 70]>>)]]

Payloads ==
    {PayloadUnified, PayloadUnifiedInconsistent, PayloadUnifiedBare,
     PayloadLegacyFlat, PayloadLegacyValid, PayloadEmpty, PayloadLegacyHighRisk,
     PayloadMulti, PayloadDetections, PayloadToxicityObject,
     PayloadToxicityAtThreshold}

\* the bodies of the backend's error answers
ErrorPayloads == {EmptyObj, [error |-> "Service unavailable"]}

\* non-success statuses of the backend
ErrorStatuses == {503}

Routes == {"comprehensive", "single", "proxy"}

(***************************************************************************)
(* One call of POST, step by step                                          *)
(***************************************************************************)
VARIABLES
    route,        \* which of the three handlers serves the request
    pc,           \* where the call is: idle, parse, fetch, await, settled, fallback, done
    request,      \* the inbound request: whether request.json() parses, and the body
    apiResponse,  \* what fetch resolved to
    response,     \* what the handler returned: status and JSON body
    remoteCalls,  \* fetches issued to the backend in this call
    bankRuns,     \* times the fallback code was entered in this call
    earlier,      \* an earlier call that the fallback answered: its body and response
    calls,        \* calls of POST handled at the same time, each with its locals
    page,         \* the useState values of GuardScannerPage
    scans         \* the runs of handleScanPrompt that wait for /api/scan

\* the variables of the one call of POST
callVars == <<route, pc, request, apiResponse, response, remoteCalls, bankRuns, earlier>>

vars == <<route, pc, request, apiResponse, response, remoteCalls, bankRuns, earlier,
          calls, page, scans>>

NoAnswer == [ok |-> FALSE, status |-> 0, parses |-> FALSE, data |-> EmptyObj]
NoResponse == [status |-> 0, body |-> EmptyObj]

NoEarlier == [body |-> EmptyObj, response |-> NoResponse]

InternalError == [error |-> "Internal server error"]

\* the fallback checks of every prompt of the model
Checks == [p \in Prompts |-> FallbackChecks(p)]

\* the calls of POST that can be in progress at the same time
MaxConcurrent == 2

\* a call that has not arrived yet
IdleCall ==
    [pc |-> "idle", request |-> [parses |-> TRUE, body |-> EmptyObj],
     apiResponse |-> NoAnswer, response |-> NoResponse]

\* null, and a value that is not null
Null == <<>>
Some(v) == <<v>>

\* the page before the user did anything: useState("") , useState(["anonymize"]),
\* useState(null), useState(false), useState(null)
InitialPage ==
    [prompt |-> <<>>, selectedScanners |-> <<"anonymize">>, apiResponse |-> Null,
     isLoading |-> FALSE, error |-> Null]

Init ==
    /\ route \in Routes
    /\ pc = "idle"
    /\ request = [parses |-> TRUE, body |-> EmptyObj]
    /\ apiResponse = NoAnswer
    /\ response = NoResponse
    /\ remoteCalls = 0
    /\ bankRuns = 0
    /\ earlier = NoEarlier
    /\ calls = [c \in 1..MaxConcurrent |-> IdleCall]
    /\ page = InitialPage
    /\ scans = <<>>

\* NextResponse.json(body, {status})
Reply(status, body) ==
    /\ response' = [status |-> status, body |-> body]
    /\ pc' = "done"

\* a request arrives
Receive(parses, body) ==
    /\ pc = "idle"
    /\ request' = [parses |-> parses, body |-> body]
    /\ pc' = "parse"
    /\ UNCHANGED <<route, apiResponse, response, remoteCalls, bankRuns, earlier, calls, page, scans>>

\* const body = await request.json(), and the outer catch when it throws
ParseBody ==
    /\ pc = "parse"
    /\ IF request.parses
       THEN pc' = "fetch" /\ UNCHANGED response
       ELSE Reply(500, InternalError)
    /\ UNCHANGED <<route, request, apiResponse, remoteCalls, bankRuns, earlier, calls, page, scans>>

\* fetch(fastApiEndpoint, ...) is issued
Fetch ==
    /\ pc = "fetch"
    /\ remoteCalls' = remoteCalls + 1
    /\ pc' = "await"
    /\ UNCHANGED <<route, request, apiResponse, response, bankRuns, earlier, calls, page, scans>>

\* the backend answers with a status; parses says whether its body is JSON
BackendAnswers(ok, status, parses, data) ==
    /\ pc = "await"
    /\ apiResponse' = [ok |-> ok, status |-> status, parses |-> parses, data |-> data]
    /\ pc' = "settled"
    /\ UNCHANGED <<route, request, response, remoteCalls, bankRuns, earlier, calls, page, scans>>

\* a handler that tries the backend again when fetch rejects
FetchThrewRetry == pc' = "fetch" /\ UNCHANGED response

\* what a rejected fetch leads to: the inner catch, or the outer one of the proxy
FetchThrew ==
    IF route = "proxy"
    THEN Reply(500, InternalError)
    ELSE pc' = "fallback" /\ UNCHANGED response

\* the connection fails: fetch rejects
FetchRejects ==
    /\ pc = "await"
    /\ FetchThrew
    /\ UNCHANGED <<route, request, apiResponse, remoteCalls, bankRuns, earlier, calls, page, scans>>

\* AbortSignal.timeout(3000) fires: fetch rejects.  The proxy passes no signal.
DeadlineExpires ==
    /\ pc = "await"
    /\ route # "proxy"
    /\ FetchThrew
    /\ UNCHANGED <<route, request, apiResponse, remoteCalls, bankRuns, earlier, calls, page, scans>>

\* a comprehensive handler that normalizes every payload, the unified shape
\* included
ComprehensiveAnswerNormalizes ==
    IF apiResponse.ok /\ apiResponse.parses
    THEN IF NormalizerThrows(apiResponse.data, request.body)
         THEN pc' = "fallback" /\ UNCHANGED response
         ELSE Reply(200, NormalizedResponse(apiResponse.data, request.body))
    ELSE pc' = "fallback" /\ UNCHANGED response

\* the comprehensive handler, from the resolved fetch on; the inner catch
\* takes what apiResponse.json() and the normalizer throw
ComprehensiveAnswer ==
    IF apiResponse.ok /\ apiResponse.parses
    THEN IF IsUnifiedShape(apiResponse.data)
         THEN Reply(200, apiResponse.data)
         ELSE IF NormalizerThrows(apiResponse.data, request.body)
         THEN pc' = "fallback" /\ UNCHANGED response
         ELSE Reply(200, NormalizedResponse(apiResponse.data, request.body))
    ELSE pc' = "fallback" /\ UNCHANGED response

\* the single-result handler, from the resolved fetch on
SingleAnswer ==
    IF apiResponse.ok /\ apiResponse.parses
    THEN Reply(200, SingleResponse(apiResponse.data, request.body))
    ELSE pc' = "fallback" /\ UNCHANGED response

\* the proxy handler, from the resolved fetch on
ProxyAnswer ==
    IF ~apiResponse.ok
    THEN LET errorData == IF apiResponse.parses THEN apiResponse.data
                          ELSE [error |-> "Unknown error occurred"]
         IN  Reply(apiResponse.status,
                   [error |-> IF Has(errorData, "error") THEN errorData.error
                              ELSE "Unknown error occurred"])
    ELSE IF apiResponse.parses
    THEN Reply(200, SingleResponse(apiResponse.data, request.body))
    ELSE Reply(500, InternalError)

HandleAnswer ==
    /\ pc = "settled"
    /\ CASE route = "comprehensive" -> ComprehensiveAnswer
         [] route = "single"        -> SingleAnswer
         [] route = "proxy"         -> ProxyAnswer
    /\ UNCHANGED <<route, request, apiResponse, remoteCalls, bankRuns, earlier, calls, page, scans>>

\* a result as a bansubstrings scanner that reads banned_substrings_list of the
\* request would report it
BanAware(body, result) ==
    IF /\ result.scanner_name = "bansubstrings"
       /\ Has(body, "banned_substrings_list")
       /\ \E k \in DOMAIN body.banned_substrings_list :
              includes(body.prompt, body.banned_substrings_list[k])
    THEN [result EXCEPT !.is_valid = FALSE, !.risk_score = 100]
    ELSE result

\* a fallback whose bansubstrings scanner looks for the substrings of the request
FallbackUsesLists ==
    /\ pc = "fallback"
    /\ bankRuns' = bankRuns + 1
    /\ IF ~Has(request.body, "prompt")
       THEN Reply(500, InternalError)
       ELSE LET built == FallbackResponse(request.body, Checks[request.body.prompt])
                results == [k \in DOMAIN built.applied_scanners_results |->
                               BanAware(request.body, built.applied_scanners_results[k])]
            IN  Reply(200, [built EXCEPT !.applied_scanners_results = results,
                                         !.overall_is_valid = everyValid(results)])
    /\ UNCHANGED <<route, request, apiResponse, remoteCalls, earlier, calls, page, scans>>

\* a fallback whose scannerResults list is not created anew in every call: the
\* results of the earlier call are still in it
FallbackKeepsList ==
    /\ pc = "fallback"
    /\ bankRuns' = bankRuns + 1
    /\ IF ~Has(request.body, "prompt")
       THEN Reply(500, InternalError)
       ELSE LET built == FallbackResponse(request.body, Checks[request.body.prompt])
                kept == IF earlier.response.status = 200
                        THEN earlier.response.body.applied_scanners_results ELSE <<>>
                results == kept \o built.applied_scanners_results
            IN  Reply(200, [built EXCEPT !.applied_scanners_results = results,
                                         !.overall_is_valid = everyValid(results)])
    /\ UNCHANGED <<route, request, apiResponse, remoteCalls, earlier, calls, page, scans>>

\* the fallback code; prompt.toLowerCase() throws when the body has no prompt
Fallback ==
    /\ pc = "fallback"
    /\ bankRuns' = bankRuns + 1
    /\ IF ~Has(request.body, "prompt")
       THEN Reply(500, InternalError)
       ELSE IF route = "comprehensive"
       THEN Reply(200, FallbackResponse(request.body, Checks[request.body.prompt]))
       ELSE Reply(200, SingleFallbackResponse(request.body.prompt))
    /\ UNCHANGED <<route, request, apiResponse, remoteCalls, earlier, calls, page, scans>>

\* the steps the handler takes by itself, the timer of the runtime included
HandlerStep ==
    \/ ParseBody
    \/ Fetch
    \/ DeadlineExpires
    \/ HandleAnswer
    \/ Fallback

\* the bodies sent to a handler: the single-result and the proxy handler
\* never read body.scanners, they get the bodies with at most one scanner
BodiesOf(handler) ==
    IF handler = "comprehensive" THEN Bodies
    ELSE {body \in Bodies : ~Has(body, "scanners") \/ Len(body.scanners) <= 1}

\* the steps of the caller, the backend and the network
EnvironmentStep ==
    \/ \E body \in BodiesOf(route) : Receive(TRUE, body)
    \/ Receive(FALSE, EmptyObj)
    \/ \E data \in Payloads : BackendAnswers(TRUE, 200, TRUE, data)
    \/ BackendAnswers(TRUE, 200, FALSE, EmptyObj)
    \/ \E status \in ErrorStatuses, data \in ErrorPayloads :
           BackendAnswers(FALSE, status, TRUE, data)
    \/ \E status \in ErrorStatuses : BackendAnswers(FALSE, status, FALSE, EmptyObj)
    \/ FetchRejects

Next == HandlerStep \/ EnvironmentStep

Spec == Init /\ [][Next]_vars

\* the runtime runs the handler's own steps and its timer; nothing obliges the
\* backend to answer
FairSpec == Spec /\ WF_vars(HandlerStep)

(***************************************************************************)
(* Calls one after the other, the backend being unreachable                *)
(***************************************************************************)
\* the longest scanners list of a request in a sequence of calls
MaxRepeatScanners == 1

\* the scanners asked for in a sequence of calls: anonymize, secrets and the
\* three that the fallback does not implement
RepeatScannerNames == {"anonymize", "secrets"} \cup {"bansubstrings", "regex", "code"}

RepeatScannerLists == UNION {[1..n -> RepeatScannerNames] : n \in 0..MaxRepeatScanners}

\* the custom lists a request can carry for the bansubstrings and regex scanners
CustomLists ==
    [banned_substrings_list |-> << <<"P","a","s","s">>, <<"j","a","n","e">> >>,
     regex_patterns_list |-> << <<"e","x","a","m","p","l","e">> >>]

\* bodies with a prompt, with or without a scanners list and the custom lists
RepeatBodies ==
    {Field("prompt", <<p>>) @@ Field("scanners", sc) @@ lists :
        p \in {PromptEmail, PromptPassword},
        sc \in {Undefined} \cup {<<l>> : l \in RepeatScannerLists},
        lists \in {EmptyObj, CustomLists}}

\* the handler is called again after it answered.  Nothing of a call outlives
\* it: body, apiResponse and everything the fallback computes are local to
\* POST.  keep remembers the answer just given, if the fallback gave it and
\* none is remembered yet.
ReceiveAgain(body, keep) ==
    /\ pc = "done"
    /\ request' = [parses |-> TRUE, body |-> body]
    /\ pc' = "parse"
    /\ apiResponse' = NoAnswer
    /\ response' = NoResponse
    /\ remoteCalls' = 0
    /\ bankRuns' = 0
    /\ earlier' = IF keep /\ earlier = NoEarlier /\ bankRuns = 1
                  THEN [body |-> request.body, response |-> response]
                  ELSE earlier
    /\ UNCHANGED <<route, calls, page, scans>>

RepeatInit == Init /\ route = "comprehensive"

\* the backend is unreachable: every fetch rejects or runs into the deadline
RepeatNext ==
    \/ \E body \in RepeatBodies : Receive(TRUE, body)
    \/ ParseBody
    \/ Fetch
    \/ FetchRejects
    \/ DeadlineExpires
    \/ Fallback
    \/ \E body \in RepeatBodies, keep \in BOOLEAN : ReceiveAgain(body, keep)

RepeatSpec == RepeatInit /\ [][RepeatNext]_vars

(***************************************************************************)
(* Calls of the comprehensive POST in progress at the same time.  The      *)
(* runtime runs a call until its next await (request.json(), fetch,        *)
(* apiResponse.json()) and may then run another call.                      *)
(***************************************************************************)
ConcurrentBodies ==
    {Field("prompt", p) @@ Field("scanners", <<sc>>) :
        p \in {Undefined, <<PromptEmail>>, <<PromptPassword>>},
        sc \in {<<"anonymize">>, <<"secrets", "toxicity">>}}

\* what the fetch of a call resolves to; NoAnswer when it rejects
ConcurrentAnswers ==
    {NoAnswer, [ok |-> FALSE, status |-> 503, parses |-> TRUE, data |-> EmptyObj]}
        \cup {[ok |-> TRUE, status |-> 200, parses |-> TRUE, data |-> data] :
                 data \in {PayloadUnified, PayloadLegacyFlat, PayloadToxicityObject}}

\* a handler whose body is a variable of the module, not of POST: every call
\* reads what the latest request.json() left there
SharedBody(c) ==
    LET parsed == {d \in DOMAIN calls : calls[d].pc \notin {"idle", "parse"}}
    IN  calls[CHOOSE d \in parsed : \A e \in parsed : e <= d].request.body

\* const body = await request.json() : a local of the call
Body(c) == calls[c].request.body

CallReceive(c, parses, body) ==
    /\ calls[c].pc = "idle"
    /\ calls' = [calls EXCEPT ![c].pc = "parse",
                              ![c].request = [parses |-> parses, body |-> body]]
    /\ UNCHANGED <<callVars, page, scans>>

\* request.json() resolves and fetch is issued, or it throws
CallParse(c) ==
    /\ calls[c].pc = "parse"
    /\ calls' = IF calls[c].request.parses
                THEN [calls EXCEPT ![c].pc = "await"]
                ELSE [calls EXCEPT ![c].pc = "done",
                                   ![c].response = [status |-> 500, body |-> InternalError]]
    /\ UNCHANGED <<callVars, page, scans>>

\* fetch resolves or rejects
CallSettle(c, answer) ==
    /\ calls[c].pc = "await"
    /\ calls' = [calls EXCEPT ![c].pc = "settled", ![c].apiResponse = answer]
    /\ UNCHANGED <<callVars, page, scans>>

\* the rest of the call: passthrough, normalizer, or the inner catch
CallAnswer(c) ==
    /\ calls[c].pc = "settled"
    /\ LET answer == calls[c].apiResponse
           reply(status, body) ==
               [calls EXCEPT ![c].pc = "done",
                             ![c].response = [status |-> status, body |-> body]]
       IN  calls' =
               IF answer.ok /\ answer.parses /\ IsUnifiedShape(answer.data)
               THEN reply(200, answer.data)
               ELSE IF answer.ok /\ answer.parses
                       /\ ~NormalizerThrows(answer.data, Body(c))
               THEN reply(200, NormalizedResponse(answer.data, Body(c)))
               ELSE [calls EXCEPT ![c].pc = "fallback"]
    /\ UNCHANGED <<callVars, page, scans>>

\* the fallback code of the call
CallFallback(c) ==
    /\ calls[c].pc = "fallback"
    /\ calls' = [calls EXCEPT
                    ![c].pc = "done",
                    ![c].response =
                        IF ~Has(Body(c), "prompt")
                        THEN [status |-> 500, body |-> InternalError]
                        ELSE [status |-> 200,
                              body |-> FallbackResponse(Body(c), Checks[Body(c).prompt])]]
    /\ UNCHANGED <<callVars, page, scans>>

ConcurrentInit == Init /\ route = "comprehensive"

ConcurrentNext ==
    \E c \in DOMAIN calls :
        \/ \E body \in ConcurrentBodies : CallReceive(c, TRUE, body)
        \/ CallReceive(c, FALSE, EmptyObj)
        \/ CallParse(c)
        \/ \E answer \in ConcurrentAnswers : CallSettle(c, answer)
        \/ CallAnswer(c)
        \/ CallFallback(c)

ConcurrentSpec == ConcurrentInit /\ [][ConcurrentNext]_vars

(***************************************************************************)
(* Vocabulary of the claims                                                *)
(***************************************************************************)
Done == pc = "done"

\* the remote call was made and gave no parsed success payload: fetch rejected
\* (connection, deadline), the status was not a success, or the body was no JSON
RemoteFailed == remoteCalls >= 1 /\ ~(apiResponse.ok /\ apiResponse.parses)

\* the comprehensive handler returned the backend's payload as it came
PassedThrough ==
    /\ route = "comprehensive"
    /\ apiResponse.ok /\ apiResponse.parses
    /\ IsUnifiedShape(apiResponse.data)

\* the handler answered with a ScanResponse
AnsweredScan ==
    Done /\ response.status = 200 /\ Has(response.body, "applied_scanners_results")

\* the handler answered with a ScanResponse it built itself
BuiltScan == AnsweredScan /\ ~PassedThrough

Results == response.body.applied_scanners_results

ResultNames == [k \in DOMAIN Results |-> Results[k].scanner_name]

\* the scanners of the request, [anonymize] when the field is absent
Requested ==
    IF Has(request.body, "scanners") THEN request.body.scanners ELSE <<"anonymize">>

IsKnown(name) == name \in KnownScanners

\* a list without its repetitions, in the order of first occurrence
RECURSIVE Dedup(_)
Dedup(seq) ==
    IF seq = <<>> THEN <<>>
    ELSE LET front == Dedup(SubSeq(seq, 1, Len(seq) - 1))
             last == seq[Len(seq)]
         IN  IF last \in Range(front) THEN front ELSE Append(front, last)

ScanResponseKeys ==
    {"original_prompt", "final_sanitized_prompt", "overall_is_valid",
     "applied_scanners_results"}

(***************************************************************************)
(* The claims                                                              *)
(***************************************************************************)
\* C1: in every ScanResponse the comprehensive handler returns (passthrough,
\* normalized or fallback), overall_is_valid is present and equals the AND of
\* is_valid over applied_scanners_results (true for the empty list).
C1_OverallIsAnd ==
    (route = "comprehensive" /\ AnsweredScan) =>
        /\ Has(response.body, "overall_is_valid")
        /\ response.body.overall_is_valid = everyValid(Results)

\* C2: in every ScanResponse the comprehensive handler builds, the results
\* are, in order, the distinct requested scanner kinds: one entry per kind,
\* in the order of first occurrence, a kind listed twice giving one entry.
C2_OneEntryPerKind ==
    (route = "comprehensive" /\ BuiltScan) =>
        ResultNames = Dedup(SelectSeq(Requested, IsKnown))

\* C3: when the scanners field is absent or the empty list, a ScanResponse the
\* comprehensive handler builds has exactly one result, named anonymize.
C3_DefaultAnonymize ==
    (/\ route = "comprehensive" /\ BuiltScan
     /\ (~Has(request.body, "scanners") \/ Requested = <<>>)) =>
        ResultNames = <<"anonymize">>

\* C4: a requested name that is none of the six scanner kinds gives no entry
\* in the results the comprehensive handler builds, and no error response: a
\* request with a prompt is answered with status 200.
C4_UnknownIgnored ==
    /\ (route = "comprehensive" /\ BuiltScan) =>
           \A k \in DOMAIN ResultNames : IsKnown(ResultNames[k])
    /\ (route = "comprehensive" /\ Done /\ request.parses
        /\ Has(request.body, "prompt")) => response.status = 200

\* C5: every result of every ScanResponse the comprehensive handler returns
\* has a risk score between 0 and 1 (0 and 100 hundredths).
C5_RiskInRange ==
    (route = "comprehensive" /\ AnsweredScan) =>
        \A k \in DOMAIN Results :
            Results[k].risk_score >= 0 /\ Results[k].risk_score <= 100

\* C6: whenever the remote call failed, the answer is a ScanResponse with
\* status 200 that the fallback computed from the prompt of the request.
C6_FailureFallsBack ==
    (Done /\ RemoteFailed) =>
        /\ response.status = 200
        /\ bankRuns = 1
        /\ DOMAIN response.body = ScanResponseKeys
        /\ response.body.original_prompt = request.body.prompt

\* C7: a call that waits for the backend eventually returns a response, also
\* when the backend never answers.
C7_AlwaysAnswers == (pc = "await") ~> Done

\* C8: the backend is called at most once in a scan; in the comprehensive
\* handler a failed remote call is followed by the fallback, with no second
\* call.
C8_SingleAttempt ==
    /\ remoteCalls <= 1
    /\ (pc \in {"await", "settled", "fallback"} => remoteCalls = 1)
    /\ (route = "comprehensive" /\ Done /\ RemoteFailed) =>
           (bankRuns = 1 /\ remoteCalls = 1)

\* C8, witness: the comprehensive handler has answered from the fallback
\* after its one remote call failed.
C8_Witness ==
    /\ route = "comprehensive" /\ Done /\ RemoteFailed
    /\ bankRuns = 1 /\ response.status = 200

\* C9: every response of the comprehensive handler is a complete ScanResponse
\* with status 200, or an object that holds an error and nothing else with a
\* failure status.
C9_ResponseOrError ==
    (route = "comprehensive" /\ Done) =>
        \/ /\ response.status = 200
           /\ ScanResponseKeys \subseteq DOMAIN response.body
           /\ ~Has(response.body, "error")
        \/ /\ response.status >= 400
           /\ DOMAIN response.body = {"error"}

\* C10: for a request whose body is malformed or has no prompt, the
\* comprehensive handler issues no remote call and runs no fallback scanner.
C10_RejectedBeforeScan ==
    (/\ route = "comprehensive" /\ pc # "idle"
     /\ (~request.parses \/ ~Has(request.body, "prompt"))) =>
        (remoteCalls = 0 /\ bankRuns = 0)

\* C11: a request whose body is no JSON is answered by the comprehensive
\* handler with a client-error status (4xx), not with the status 500 it uses
\* for an exception inside the handler.
C11_ClientErrorStatus ==
    (route = "comprehensive" /\ Done /\ ~request.parses) =>
        (response.status >= 400 /\ response.status <= 499)

\* the normalizer of the comprehensive handler threw on a parsed payload
NormalizerFailed ==
    /\ route = "comprehensive"
    /\ apiResponse.ok /\ apiResponse.parses
    /\ ~IsUnifiedShape(apiResponse.data)
    /\ NormalizerThrows(apiResponse.data, request.body)

\* C12: when the normalizer throws on the parsed payload of a successful
\* remote call (the request having a prompt), the answer is the internal-error response with a failure
\* status, and the fallback has not run in its place.
C12_InternalErrorSurfaced ==
    (Done /\ NormalizerFailed /\ Has(request.body, "prompt")) =>
        /\ response.status >= 500
        /\ response.body = InternalError
        /\ bankRuns = 0

\* C13: when the backend answered with a success status and a parsed payload
\* that has an applied_scanners_results list, the comprehensive handler
\* answers 200 with exactly that payload, and the fallback has not run.
C13_PassthroughVerbatim ==
    (/\ route = "comprehensive" /\ Done
     /\ apiResponse.ok /\ apiResponse.parses
     /\ Has(apiResponse.data, "applied_scanners_results")) =>
        /\ response.status = 200
        /\ response.body = apiResponse.data
        /\ bankRuns = 0

\* C13, witness: a payload of the unified shape whose verdict disagrees with
\* its results has been returned as it came.
C13_Witness ==
    /\ route = "comprehensive" /\ Done
    /\ apiResponse.ok /\ apiResponse.parses
    /\ apiResponse.data = PayloadUnifiedInconsistent
    /\ Has(request.body, "prompt")
    /\ response = [status |-> 200, body |-> PayloadUnifiedInconsistent]

\* the comprehensive handler answered from its fallback
FallbackAnswered ==
    route = "comprehensive" /\ Done /\ bankRuns = 1 /\ response.status = 200

\* anonymize is among the requested scanners, by name or by default
AnonymizeRequested == "anonymize" \in Range(Requested) \/ Requested = <<>>

\* C14: in a fallback response, final_sanitized_prompt is the redacted prompt
\* when anonymize is among the requested scanners and the prompt has PII, and
\* the original prompt in every other case.
C14_SanitizedOnlyByAnonymize ==
    FallbackAnswered =>
        response.body.final_sanitized_prompt =
            IF AnonymizeRequested /\ Checks[request.body.prompt].hasPII
            THEN Checks[request.body.prompt].sanitizedPrompt
            ELSE request.body.prompt

\* the scanners that report and never rewrite the prompt
NonMutating == {"secrets", "toxicity", "bansubstrings", "regex", "code"}

\* C15: in every ScanResponse the comprehensive handler builds for a request
\* with a prompt (normalized or fallback), the result of each non-mutating
\* scanner has sanitized_prompt equal to the prompt of the request.
C15_NonMutatingEcho ==
    (route = "comprehensive" /\ BuiltScan /\ Has(request.body, "prompt")) =>
        \A k \in DOMAIN Results :
            Results[k].scanner_name \in NonMutating =>
                /\ Has(Results[k], "sanitized_prompt")
                /\ Results[k].sanitized_prompt = request.body.prompt

\* the five PII categories with the expression and the placeholder of each
Categories == {"email", "phone", "creditCard", "ssn", "name"}

RegexOf ==
    [email |-> emailRegex, phone |-> phoneRegex, creditCard |-> creditCardRegex,
     ssn |-> ssnRegex, name |-> nameRegex]

PlaceholderOf ==
    [email |-> REDACTED_EMAIL, phone |-> REDACTED_PHONE, creditCard |-> REDACTED_CC,
     ssn |-> REDACTED_SSN, name |-> REDACTED_PERSON]

\* the texts the two fallbacks return as sanitized for the prompts of the model
FallbackTexts ==
    {Checks[p].sanitizedPrompt : p \in Prompts}
        \cup {SingleFallbackResponse(p).final_sanitized_prompt : p \in Prompts}

\* for each of them and each category: whether the text still has a span the
\* expression matches, and whether it has the placeholder
Redacted ==
    [t \in FallbackTexts |->
        [c \in Categories |->
            [left |-> test(RegexOf[c], t), marked |-> includes(t, PlaceholderOf[c])]]]

\* every span of a category found in the prompt is replaced by the placeholder
\* of the category in the text
SpansReplaced(prompt, text) ==
    \A c \in Categories :
        Checks[prompt].found[c] => (Redacted[text][c].marked /\ ~Redacted[text][c].left)

\* a handler with a fallback (comprehensive or single-result) answered from it
AnyFallbackAnswered ==
    route \in {"comprehensive", "single"} /\ Done /\ bankRuns = 1 /\ response.status = 200

\* C16: in a fallback response to a request that asks for anonymize, the
\* anonymize result of a prompt with PII is invalid with risk 0.8, every matched
\* span is replaced by the placeholder of its category in sanitized_prompt and
\* in final_sanitized_prompt, and overall_is_valid is false; the anonymize
\* result of a prompt without PII is valid with risk 0 and echoes the prompt.
C16_AnonymizeVerdict ==
    (AnyFallbackAnswered /\ AnonymizeRequested) =>
        \A k \in DOMAIN Results :
            Results[k].scanner_name = "anonymize" =>
                IF Checks[request.body.prompt].hasPII
                THEN /\ ~Results[k].is_valid
                     /\ Results[k].risk_score = 80
                     /\ SpansReplaced(request.body.prompt, Results[k].sanitized_prompt)
                     /\ SpansReplaced(request.body.prompt,
                                      response.body.final_sanitized_prompt)
                     /\ ~response.body.overall_is_valid
                ELSE /\ Results[k].is_valid
                     /\ Results[k].risk_score = 0
                     /\ Results[k].sanitized_prompt = request.body.prompt

\* for each prompt of the model and each term of the two vocabularies: whether
\* the prompt, in lower case, contains the term
Occurs ==
    [p \in Prompts |->
        [w \in Range(potentialSecrets) \cup Range(toxicWords) |->
            includes(toLowerCase(p), w)]]

\* the terms of a vocabulary that occur in the prompt of the request
TermsIn(vocabulary) == {w \in Range(vocabulary) : Occurs[request.body.prompt][w]}

\* a result whose verdict, risk and listed terms are those of the vocabulary:
\* invalid with the given risk and exactly the occurring terms when a term
\* occurs, valid with risk 0 otherwise
VerdictOf(result, vocabulary, risk, listed) ==
    IF TermsIn(vocabulary) # {}
    THEN /\ ~result.is_valid
         /\ result.risk_score = risk
         /\ Has(result.details, listed)
         /\ Range(result.details[listed]) = TermsIn(vocabulary)
         /\ Len(result.details[listed]) = Cardinality(TermsIn(vocabulary))
    ELSE result.is_valid /\ result.risk_score = 0

\* C17: in a fallback response of the comprehensive handler, the secrets
\* result is invalid exactly when the prompt contains, whatever the case, a
\* term of the secrets vocabulary, with risk 0.95 and the occurring terms in
\* its details, and valid with risk 0 otherwise; the same for the toxicity
\* result with the toxicity vocabulary and risk 0.9.
C17_VocabularyVerdicts ==
    FallbackAnswered =>
        \A k \in DOMAIN Results :
            /\ Results[k].scanner_name = "secrets" =>
                   VerdictOf(Results[k], potentialSecrets, 95, "potential_matches")
            /\ Results[k].scanner_name = "toxicity" =>
                   VerdictOf(Results[k], toxicWords, 90, "words_found")

\* C17, witness: the fallback answered a prompt that has "Password" in it
\* with a secrets result that is invalid with risk 0.95 and lists "password",
\* and a toxicity result.
C17_Witness ==
    /\ FallbackAnswered
    /\ request.body.prompt = PromptPassword
    /\ ResultNames = <<"secrets", "toxicity">>
    /\ ~Results[1].is_valid /\ Results[1].risk_score = 95
    /\ Results[1].details.potential_matches = <<potentialSecrets[2]>>

\* the fallback checks run on the texts the comprehensive fallback returns as
\* sanitized
Rescan == [t \in {Checks[p].sanitizedPrompt : p \in Prompts} |-> FallbackChecks(t)]

\* the anonymize result of the fallback for the prompt t
AnonymizeAgain(t) == FallbackPush("anonymize", t, Rescan[t])[1]

SameScan ==
    /\ earlier # NoEarlier
    /\ Get(request.body, "prompt") = Get(earlier.body, "prompt")
    /\ Get(request.body, "scanners") = Get(earlier.body, "scanners")

\* the custom lists of the request differ from those of the earlier one
ListsDiffer ==
    \/ Get(request.body, "banned_substrings_list")
            # Get(earlier.body, "banned_substrings_list")
    \/ Get(request.body, "regex_patterns_list")
            # Get(earlier.body, "regex_patterns_list")

Stubs == {"bansubstrings", "regex", "code"}

\* C18: in a fallback response the bansubstrings, regex and code results are
\* valid with risk 0 and echo the prompt, and a request that differs from an
\* earlier one in banned_substrings_list or regex_patterns_list only gets the
\* response the earlier one got.
C18_StubsIgnoreLists ==
    /\ FallbackAnswered =>
           \A k \in DOMAIN Results :
               Results[k].scanner_name \in Stubs =>
                   /\ Results[k].is_valid
                   /\ Results[k].risk_score = 0
                   /\ Results[k].sanitized_prompt = request.body.prompt
    /\ (Done /\ bankRuns = 1 /\ SameScan /\ ListsDiffer) => response = earlier.response

\* C18, witness: a request for bansubstrings whose list has a substring of its
\* prompt got the valid result that the same request without lists got.
C18_Witness ==
    /\ FallbackAnswered /\ SameScan
    /\ request.body.prompt = PromptPassword
    /\ ResultNames = <<"bansubstrings">>
    /\ Has(request.body, "banned_substrings_list")
    /\ ~Has(earlier.body, "banned_substrings_list")
    /\ Results[1].is_valid
    /\ response = earlier.response

\* C20: with the backend unreachable, a call with the prompt and the scanners
\* of an earlier call gets the response the earlier call got, whatever was
\* handled before and between the two.
C20_SameRequestSameResponse ==
    (Done /\ bankRuns = 1 /\ SameScan) => response = earlier.response

\* C20, witness: the fallback answered the same e-mail prompt twice, with an
\* anonymize result, and gave the same response.
C20_Witness ==
    /\ FallbackAnswered /\ SameScan
    /\ request.body = earlier.body
    /\ request.body.prompt = PromptEmail
    /\ ResultNames = <<"anonymize">>
    /\ ~Results[1].is_valid
    /\ response = earlier.response

\* the response of the comprehensive handler to a request handled alone,
\* given what its fetch resolved to
Alone(req, answer) ==
    IF ~req.parses THEN [status |-> 500, body |-> InternalError]
    ELSE IF answer.ok /\ answer.parses /\ IsUnifiedShape(answer.data)
    THEN [status |-> 200, body |-> answer.data]
    ELSE IF answer.ok /\ answer.parses /\ ~NormalizerThrows(answer.data, req.body)
    THEN [status |-> 200, body |-> NormalizedResponse(answer.data, req.body)]
    ELSE IF ~Has(req.body, "prompt") THEN [status |-> 500, body |-> InternalError]
    ELSE [status |-> 200, body |-> FallbackResponse(req.body, Checks[req.body.prompt])]

\* C21: whatever the interleaving of the calls in progress, the response of
\* each call that has answered is the response to its request handled alone
\* with the same outcome of the remote call.
C21_NoInterference ==
    \A c \in DOMAIN calls :
        calls[c].pc = "done" =>
            calls[c].response = Alone(calls[c].request, calls[c].apiResponse)

\* C21, witness: two calls with different prompts, whose steps interleave in
\* every order, have both answered from the fallback, each with its own prompt.
C21_Witness ==
    /\ calls[1].pc = "done" /\ calls[2].pc = "done"
    /\ calls[1].response.status = 200 /\ calls[2].response.status = 200
    /\ ~calls[1].apiResponse.ok /\ ~calls[2].apiResponse.ok
    /\ calls[1].response.body.original_prompt = PromptEmail
    /\ calls[2].response.body.original_prompt = PromptPassword

\* the comprehensive handler answered with the response its normalizer built
Normalized ==
    /\ route = "comprehensive" /\ Done
    /\ apiResponse.ok /\ apiResponse.parses
    /\ ~IsUnifiedShape(apiResponse.data)
    /\ ~NormalizerThrows(apiResponse.data, request.body)

\* the single-result handler answered with the response it built from the
\* payload
SingleBuilt == route = "single" /\ Done /\ apiResponse.ok /\ apiResponse.parses

\* the payload has no sub-object for the scanner
NoSubObject(name) ==
    scannerFieldMap(name) = Undefined \/ ~Has(apiResponse.data, scannerFieldMap(name)[1])

\* a detection override applies to the result of the scanner
Overridden(name) ==
    \/ name = "anonymize" /\ Detection(apiResponse.data, "pii") # Undefined
    \/ name = "toxicity" /\ Detection(apiResponse.data, "toxicity") # Undefined
    \/ name = "bansubstrings"
           /\ Detection(apiResponse.data, "banned_substrings") # Undefined

\* validity and risk of the top level of the payload: valid unless is_valid
\* is false, risk 0 when absent
TopLevelVerdict(result) ==
    /\ result.is_valid = ~(Has(apiResponse.data, "is_valid") /\ ~apiResponse.data.is_valid)
    /\ result.risk_score =
           IF Has(apiResponse.data, "risk_score") THEN apiResponse.data.risk_score ELSE 0

\* C22: in a response built from a payload without a sub-object for a
\* requested scanner, the anonymize result has the validity of the top level
\* (valid unless is_valid is false) and its risk (0 when absent), and the
\* result of any other scanner, no detection override applying, is valid with
\* risk 0 and empty details.
C22_SynthesizedResult ==
    (Normalized \/ SingleBuilt) =>
        \A k \in DOMAIN Results :
            LET name == Results[k].scanner_name
            IN  (NoSubObject(name) /\ ~Overridden(name)) =>
                    IF name = "anonymize"
                    THEN TopLevelVerdict(Results[k])
                    ELSE /\ Results[k].is_valid
                         /\ Results[k].risk_score = 0
                         /\ Results[k].details = EmptyObj

\* the result the normalizer builds for the k-th requested scanner before it
\* looks at the detections
BaseResult(k) == NormalizerBase(Results[k].scanner_name, apiResponse.data, request.body)

\* C23: in a normalized response to a request for toxicity, the payload
\* having detection.toxicity, the toxicity result has that list as
\* details.toxicity_scores, is invalid when an item has a score above 0.7, and
\* is not made invalid by scores up to 0.7.
C23_ToxicityOverride ==
    Normalized =>
        \A k \in DOMAIN Results :
            (/\ Results[k].scanner_name = "toxicity"
             /\ Detection(apiResponse.data, "toxicity") # Undefined) =>
                LET toxicity == apiResponse.data.detection.toxicity
                    above == \E i \in DOMAIN toxicity.items : toxicity.items[i].score > 70
                IN  /\ Has(Results[k].details, "toxicity_scores")
                    /\ Results[k].details.toxicity_scores = toxicity
                    /\ above => ~Results[k].is_valid
                    /\ (~above /\ BaseResult(k).is_valid) => Results[k].is_valid

\* C23, witness: a toxicity result made invalid by a score of 0.71, the
\* payload saying nothing else about toxicity.
C23_Witness ==
    /\ Normalized
    /\ apiResponse.data = PayloadDetections
    /\ ResultNames = <<"toxicity">>
    /\ BaseResult(1).is_valid
    /\ ~Results[1].is_valid
    /\ Results[1].details.toxicity_scores = PayloadDetections.detection.toxicity

\* C24: in a normalized response to a request for bansubstrings, the result
\* has details.banned_matches and is invalid when detection.banned_substrings
\* is present and not empty, and is the result built from the sub-object or
\* the defaults, unchanged, when it is absent or empty.
C24_BannedOverride ==
    Normalized =>
        \A k \in DOMAIN Results :
            Results[k].scanner_name = "bansubstrings" =>
                LET banned == Detection(apiResponse.data, "banned_substrings")
                IN  IF banned # Undefined /\ Len(banned[1]) > 0
                    THEN /\ Has(Results[k].details, "banned_matches")
                         /\ Results[k].details.banned_matches = banned[1]
                         /\ ~Results[k].is_valid
                    ELSE Results[k] = BaseResult(k)

\* the sub-object of the payload for the scanner says is_valid: false
SubObjectInvalid(name) ==
    /\ ~NoSubObject(name)
    /\ LET result == apiResponse.data[scannerFieldMap(name)[1]]
       IN  Has(result, "is_valid") /\ ~result.is_valid

\* C25: in a normalized response, a toxicity or bansubstrings result whose
\* sub-object in the payload says is_valid: false is invalid, and so is
\* overall_is_valid, whatever the detections of the payload are.
C25_OverridesOnlyLower ==
    Normalized =>
        \A k \in DOMAIN Results :
            (/\ Results[k].scanner_name \in {"toxicity", "bansubstrings"}
             /\ SubObjectInvalid(Results[k].scanner_name)) =>
                (~Results[k].is_valid /\ ~response.body.overall_is_valid)

(***************************************************************************)
(* GuardScannerPage: the page that posts to /api/scan.  The repository has *)
(* two versions of it, which differ in what they do with the answer.  The  *)
(* user types a prompt, toggles scanners and presses the scan button; the  *)
(* lists of custom substrings and patterns stay as constructed, empty.     *)
(***************************************************************************)
\* the two versions of the page
Components == {"anonymizer", "guard"}

\* the scanners of the catalogue that the user toggles
MaxToggled == 2
Catalogue == <<"anonymize", "toxicity", "secrets", "bansubstrings", "regex", "code">>
Toggled == {Catalogue[i] : i \in 1..MaxToggled}

PromptEmpty == <<>>
PromptSpaces == <<" ", "\n", " ">>

\* what the user types into the textarea
Typed == {PromptEmpty, PromptSpaces, PromptEmail, PromptFine}

WhiteSpace == {" ", "\t", "\n", "\r"}

\* String.prototype.trim
RECURSIVE trim(_)
trim(s) ==
    IF s = <<>> THEN s
    ELSE IF Head(s) \in WhiteSpace THEN trim(Tail(s))
    ELSE IF s[Len(s)] \in WhiteSpace THEN trim(SubSeq(s, 1, Len(s) - 1))
    ELSE s

\* prev.includes(scannerId) ? prev.filter(s => s !== scannerId) : [...prev, scannerId]
Toggle(prev, scannerId) ==
    IF \E i \in DOMAIN prev : prev[i] = scannerId
    THEN SelectSeq(prev, LAMBDA s : s # scannerId)
    ELSE Append(prev, scannerId)

\* a validation that checks the prompt and lets an empty selection through
RejectionOfPromptOnly(prompt, selectedScanners) ==
    IF trim(prompt) = <<>> THEN Some("Prompt cannot be empty.") ELSE Null

\* the message of the validation at the head of handleScanPrompt, null when
\* the scan goes ahead
Rejection(prompt, selectedScanners) ==
    IF trim(prompt) = <<>> THEN Some("Prompt cannot be empty.")
    ELSE IF Len(selectedScanners) = 0 THEN Some("Please select at least one scanner.")
    ELSE Null

\* an error message of the page: its text, and the status that the message
\* of an API error starts with
Message(text) == [status |-> 0, text |-> text]

\* a rejection that sets the message and leaves the displayed response
RejectedKeepingResponse(message) == [page EXCEPT !.error = Some(Message(message))]

\* setError(message); setApiResponse(null); return
Rejected(message) ==
    [page EXCEPT !.error = Some(Message(message)), !.apiResponse = Null]

\* the body of the request to /api/scan
RequestBody(prompt, selectedScanners) ==
    [prompt |-> prompt, scanners |-> selectedScanners]
        @@ (IF (\E i \in DOMAIN selectedScanners : selectedScanners[i] = "bansubstrings")
               /\ Len(page.customBannedSubstrings) > 0
            THEN [banned_substrings_list |-> page.customBannedSubstrings]
            ELSE EmptyObj)
        @@ (IF (\E i \in DOMAIN selectedScanners : selectedScanners[i] = "regex")
               /\ Len(page.customRegexPatterns) > 0
            THEN [regex_patterns_list |-> page.customRegexPatterns]
            ELSE EmptyObj)

\* no response of /api/scan yet
NoFetch == [ok |-> FALSE, status |-> 0, statusText |-> "", parses |-> FALSE, body |-> EmptyObj]

\* what the backend of the scan handler does during a scan of the page
PageAnswers ==
    {NoAnswer}
        \cup {[ok |-> TRUE, status |-> 200, parses |-> TRUE, data |-> data] :
                 data \in {PayloadUnified, PayloadLegacyFlat}}

\* the response of the scan handler to the request of the page
Served(requestBody, answer) ==
    LET served == Alone([parses |-> TRUE, body |-> requestBody], answer)
    IN  [ok |-> served.status \in 200..299, status |-> served.status,
         statusText |-> IF served.status = 200 THEN "OK" ELSE "Internal Server Error",
         parses |-> TRUE, body |-> served.body]

\* responses that are not the handler's: the platform's own error pages, and
\* a body cut short
Unserved ==
    {[ok |-> FALSE, status |-> 500, statusText |-> "Internal Server Error",
      parses |-> TRUE, body |-> InternalError],
     [ok |-> FALSE, status |-> 502, statusText |-> "Bad Gateway",
      parses |-> FALSE, body |-> EmptyObj],
     [ok |-> TRUE, status |-> 200, statusText |-> "OK",
      parses |-> FALSE, body |-> EmptyObj]}

\* the key of the error body that the version of the page reads
ErrorKey(component) == IF component = "anonymizer" THEN "detail" ELSE "error"

\* `API Error (${response.status}): ${errorData.detail || response.statusText}`
ApiError(component, fetched) ==
    LET errorData == IF fetched.parses THEN fetched.body
                     ELSE ErrorKey(component) :> "Unknown error occurred"
    IN  [status |-> fetched.status,
         text |-> IF Has(errorData, ErrorKey(component))
                     /\ errorData[ErrorKey(component)] # ""
                  THEN errorData[ErrorKey(component)]
                  ELSE fetched.statusText]

\* what setApiResponse receives after a successful scan
Shown(component, data, prompt) ==
    IF component = "anonymizer" THEN data
    ELSE LET sanitized == OrStr(Get(data, "sanitized_prompt"), Some(prompt))[1]
         IN  [original_prompt |-> prompt,
              final_sanitized_prompt |-> sanitized,
              applied_scanners_results |->
                  << [scanner_name |-> "anonymize", input_prompt |-> prompt,
                      sanitized_prompt |-> sanitized,
                      risk_score |-> OrZero(Get(data, "risk_score")),
                      details |-> IF Has(data, "details") THEN data.details
                                  ELSE EmptyObj]
                         @@ Field("is_valid", Get(data, "is_valid")) >>]
                 @@ Field("overall_is_valid", Get(data, "is_valid"))

\* a run of handleScanPrompt that leaves isLoading as it is when it fails
FailedNoFinally(message) == [page EXCEPT !.error = Some(message)]

\* catch: setError(e.message); finally: setIsLoading(false)
Failed(message) == [page EXCEPT !.error = Some(message), !.isLoading = FALSE]

\* the run of handleScanPrompt that follows the latest one
NextId == IF scans = <<>> THEN 0 ELSE 1 - scans[1].id

\* onChange of the textarea
setPrompt(value) ==
    /\ page' = [page EXCEPT !.prompt = value]
    /\ UNCHANGED <<callVars, calls, scans>>

\* onChange of a scanner's checkbox
handleScannerChange(scannerId) ==
    /\ page' = [page EXCEPT !.selectedScanners = Toggle(@, scannerId),
                            !.apiResponse = Null, !.error = Null]
    /\ UNCHANGED <<callVars, calls, scans>>

\* onClick of the scan button, which is disabled while isLoading: the
\* validation, and then the request
handleScanPrompt ==
    /\ ~page.isLoading
    /\ LET rejection == Rejection(page.prompt, page.selectedScanners)
           run == [id |-> NextId, prompt |-> page.prompt,
                   selectedScanners |-> page.selectedScanners, fetched |-> NoFetch]
       IN  IF rejection # Null
           THEN /\ page' = Rejected(rejection[1])
                /\ scans' = << run @@ [pc |-> "rejected", requests |-> 0,
                                       requestBody |-> EmptyObj] >>
           ELSE /\ page' = [page EXCEPT !.isLoading = TRUE, !.error = Null,
                                        !.apiResponse = Null]
                /\ scans' = << run @@ [pc |-> "fetch", requests |-> 1,
                                       requestBody |->
                                           RequestBody(page.prompt, page.selectedScanners)] >>
    /\ UNCHANGED <<callVars, calls>>

\* await fetch("/api/scan", ...) rejects: catch and finally
ScanFetchRejects ==
    /\ scans # <<>> /\ scans[1].pc = "fetch"
    /\ page' = Failed(Message("TypeError: Failed to fetch"))
    /\ scans' = <<[scans[1] EXCEPT !.pc = "done"]>>
    /\ UNCHANGED <<callVars, calls>>

\* await fetch("/api/scan", ...) resolves; the run goes on to read the body
ScanFetchResolves(fetched) ==
    /\ scans # <<>> /\ scans[1].pc = "fetch"
    /\ scans' = <<[scans[1] EXCEPT !.pc = "json", !.fetched = fetched]>>
    /\ UNCHANGED <<callVars, calls, page>>

\* await response.json() settles: the rest of the try, catch and finally
JsonSettles ==
    /\ scans # <<>> /\ scans[1].pc = "json"
    /\ LET run == scans[1]
       IN  page' =
               IF ~run.fetched.ok
               THEN Failed(ApiError(page.component, run.fetched))
               ELSE IF ~run.fetched.parses
               THEN Failed(Message("SyntaxError: Unexpected end of JSON input"))
               ELSE [page EXCEPT
                        !.apiResponse =
                            Some(Shown(page.component, run.fetched.body, run.prompt)),
                        !.isLoading = FALSE]
    /\ scans' = <<[scans[1] EXCEPT !.pc = "done"]>>
    /\ UNCHANGED <<callVars, calls>>

PageInit ==
    /\ route = "comprehensive"
    /\ pc = "idle"
    /\ request = [parses |-> TRUE, body |-> EmptyObj]
    /\ apiResponse = NoAnswer
    /\ response = NoResponse
    /\ remoteCalls = 0
    /\ bankRuns = 0
    /\ earlier = NoEarlier
    /\ calls = [c \in 1..MaxConcurrent |-> IdleCall]
    /\ \E component \in Components :
           page = InitialPage
                      @@ [component |-> component, customBannedSubstrings |-> <<>>,
                          customRegexPatterns |-> <<>>]
    /\ scans = <<>>

PageNext ==
    \/ \E value \in Typed : setPrompt(value)
    \/ \E scannerId \in Toggled : handleScannerChange(scannerId)
    \/ handleScanPrompt
    \/ ScanFetchRejects
    \/ \E answer \in PageAnswers :
           ScanFetchResolves(Served(scans[1].requestBody, answer))
    \/ \E fetched \in Unserved : ScanFetchResolves(fetched)
    \/ JsonSettles

PageSpec == PageInit /\ [][PageNext]_vars

\* the latest run of handleScanPrompt is between its request and its end
InFlight == scans # <<>> /\ scans[1].pc \in {"fetch", "json"}

\* the latest run of handleScanPrompt displayed the answer of the handler
Displayed ==
    /\ scans # <<>> /\ scans[1].pc = "done"
    /\ scans[1].fetched.ok /\ scans[1].fetched.parses
    /\ page.apiResponse # Null

\* C26: a displayed response comes from a scan that was issued with the
\* scanners that are selected now.
C26_ResultsOfSelection ==
    page.apiResponse # Null =>
        (scans # <<>> /\ scans[1].selectedScanners = page.selectedScanners)

\* C27: the error message and the displayed response are never both set.
C27_ErrorOrResponse == ~(page.error # Null /\ page.apiResponse # Null)

\* C27, witness: the second press of the scan button displayed the answer of
\* the handler, and no error message is left.
C27_Witness == Displayed /\ scans[1].id = 1 /\ page.error = Null

\* the awaits of handleScanPrompt settle: the browser ends a fetch that gets
\* no answer, and the reading of a body that has arrived ends
ScanSettles ==
    \/ ScanFetchRejects
    \/ \E answer \in PageAnswers :
           ScanFetchResolves(Served(scans[1].requestBody, answer))
    \/ \E fetched \in Unserved : ScanFetchResolves(fetched)
    \/ JsonSettles

PageFairSpec == PageSpec /\ WF_vars(ScanSettles)

\* C28: isLoading is true exactly while the latest run of handleScanPrompt is
\* between its request and its end, so not after a rejection by the validation
\* and not after the end of a run, whichever way it ended; and a run that has
\* sent its request reaches its end.
C28_LoadingUntilSettled ==
    /\ [](page.isLoading <=> InFlight)
    /\ (InFlight ~> ~page.isLoading)

\* C28, witness: a run ended because the body of a 200 answer did not parse,
\* and isLoading is false again.
C28_Witness ==
    /\ scans # <<>> /\ scans[1].pc = "done"
    /\ scans[1].fetched.ok /\ ~scans[1].fetched.parses
    /\ page.error # Null /\ ~page.isLoading

\* the scan button is pressed: a run of handleScanPrompt follows the latest one
Pressed == scans' # <<>> /\ scans'[1].id = NextId

\* the prompt is empty or made of white space only
Blank(prompt) == \A i \in DOMAIN prompt : prompt[i] \in WhiteSpace

\* C29: a press of the scan button with a blank prompt or with no scanner
\* selected sends no request, sets an error message, clears the displayed
\* response, and leaves the prompt and the selected scanners as they were.
C29_RejectedScan ==
    [][(Pressed /\ (Blank(page.prompt) \/ page.selectedScanners = <<>>)) =>
          /\ scans'[1].requests = 0
          /\ page'.error # Null
          /\ page'.apiResponse = Null
          /\ page'.prompt = page.prompt
          /\ page'.selectedScanners = page.selectedScanners]_vars

\* C29, witness: the scan button was pressed a second time, with a prompt of
\* white space and a scanner selected; no request was sent and the page shows
\* an error message and no response.
C29_Witness ==
    /\ scans # <<>> /\ scans[1].pc = "rejected" /\ scans[1].id = 1
    /\ scans[1].prompt = PromptSpaces /\ page.prompt = PromptSpaces
    /\ scans[1].selectedScanners # <<>>
    /\ scans[1].requests = 0
    /\ page.error # Null /\ page.apiResponse = Null

\* C30: after a successful scan, the final_sanitized_prompt, overall_is_valid
\* and applied_scanners_results that the page displays are those of the
\* response of the scan handler.
C30_DisplaysHandlerResponse ==
    Displayed =>
        LET shown == page.apiResponse[1]
            returned == scans[1].fetched.body
        IN  /\ Get(shown, "final_sanitized_prompt") = Get(returned, "final_sanitized_prompt")
            /\ Get(shown, "overall_is_valid") = Get(returned, "overall_is_valid")
            /\ Get(shown, "applied_scanners_results")
                   = Get(returned, "applied_scanners_results")

====
